---- MODULE Spec2Model ----
(***************************************************************************)
(* A model of the curiomuz IRC bot engine (src/bot.py): the wire parser,   *)
(* the handler and command registries, the command dispatcher, the         *)
(* connection handshake and the main loop with its spawned handler tasks.  *)
(*                                                                         *)
(* Text is modelled as sequences of one-character strings, so that         *)
(* splitting, stripping, prefix tests and replacement are computed the     *)
(* way the Python string methods compute them.                             *)
(***************************************************************************)
EXTENDS Naturals, Integers, Sequences, FiniteSets, TLC

(***************************************************************************)
(* Python string methods.                                                  *)
(***************************************************************************)

\* str.startswith(p)
StartsWith(s, p) == Len(p) <= Len(s) /\ SubSeq(s, 1, Len(p)) = p

\* bytes.endswith(p)
EndsWith(s, p) == Len(p) <= Len(s) /\ SubSeq(s, Len(s) - Len(p) + 1, Len(s)) = p

\* str.find(sub), 1-based; 0 when sub does not occur
Find(s, sub) ==
    LET hits == {i \in 1..(Len(s) + 1) :
                    i + Len(sub) - 1 <= Len(s) /\ SubSeq(s, i, i + Len(sub) - 1) = sub}
    IN  IF hits = {} THEN 0 ELSE CHOOSE i \in hits : \A j \in hits : i <= j

\* "sub in s"
Contains(s, sub) == Find(s, sub) # 0

\* str.replace(old, new, 1)
Replace1(s, old, new) ==
    LET i == Find(s, old)
    IN  IF i = 0 THEN s
        ELSE SubSeq(s, 1, i - 1) \o new \o SubSeq(s, i + Len(old), Len(s))

\* str.split(sep, maxsplit); maxsplit = -1 splits at every occurrence
RECURSIVE Split(_, _, _)
Split(s, sep, maxsplit) ==
    LET i == Find(s, sep)
    IN  IF maxsplit = 0 \/ i = 0 THEN <<s>>
        ELSE <<SubSeq(s, 1, i - 1)>>
                 \o Split(SubSeq(s, i + Len(sep), Len(s)), sep, maxsplit - 1)

\* the characters str.split() with no argument treats as separators
Whitespace == {" ", "\t", "\r", "\n"}

\* str.split() with no argument: runs of whitespace separate, no empty tokens
RECURSIVE SplitWS(_)
SplitWS(s) ==
    IF s = <<>> THEN <<>>
    ELSE IF Head(s) \in Whitespace THEN SplitWS(Tail(s))
    ELSE LET ends == {i \in 1..Len(s) : s[i] \in Whitespace}
             stop == IF ends = {} THEN Len(s) + 1
                     ELSE CHOOSE i \in ends : \A j \in ends : i <= j
         IN  <<SubSeq(s, 1, stop - 1)>> \o SplitWS(SubSeq(s, stop, Len(s)))

\* str.strip(chars)
RECURSIVE LStrip(_, _)
LStrip(s, chars) ==
    IF s # <<>> /\ Head(s) \in chars THEN LStrip(Tail(s), chars) ELSE s

RECURSIVE RStrip(_, _)
RStrip(s, chars) ==
    IF s # <<>> /\ s[Len(s)] \in chars THEN RStrip(SubSeq(s, 1, Len(s) - 1), chars)
    ELSE s

Strip(s, chars) == RStrip(LStrip(s, chars), chars)

\* sep.join(parts)
RECURSIVE Join(_, _)
Join(sep, parts) ==
    IF parts = <<>> THEN <<>>
    ELSE IF Len(parts) = 1 THEN parts[1]
    ELSE parts[1] \o sep \o Join(sep, Tail(parts))

(***************************************************************************)
(* Text constants of the protocol and of the modelled inputs.              *)
(***************************************************************************)

SP      == <<" ">>
CRLF    == <<"\r", "\n">>
sPING   == <<"P", "I", "N", "G">>
sPONG   == <<"P", "O", "N", "G">>
sNICK   == <<"N", "I", "C", "K">>
sUSER   == <<"U", "S", "E", "R">>
sJOIN   == <<"J", "O", "I", "N">>
sPART   == <<"P", "A", "R", "T">>
sQUIT   == <<"Q", "U", "I", "T">>
sKICK   == <<"K", "I", "C", "K">>
sPRIVMSG == <<"P", "R", "I", "V", "M", "S", "G">>
s376    == <<"3", "7", "6">>
sUsage  == <<"U", "s", "a", "g", "e", ":">>

(***************************************************************************)
(* The message parser.                                                     *)
(***************************************************************************)

\* a raised exception: the parse (or a handler) did not produce a value
Raise(kind) == [ok |-> FALSE, error |-> kind]
Return(v)   == [ok |-> TRUE, value |-> v]

_parse_sender(sender) ==
    IF ~StartsWith(sender, <<":">>) THEN Raise("AssertionError")
    ELSE LET s == Tail(sender) IN
         IF Contains(s, <<"!">>)
         THEN LET nu == Split(s, <<"!">>, 1)
                  uh == Split(nu[2], <<"@">>, 1)
              IN  IF Len(uh) # 2 THEN Raise("ValueError")
                  ELSE Return([type |-> "user", nick |-> nu[1],
                               user |-> uh[1], hostname |-> uh[2]])
         ELSE Return([type |-> "server", server |-> s])

\* a parameter list split at every space
ParamListSplit(params) == Split(params, SP, -1)

\* the parameter list: a " :" starts one trailing parameter
ParamList(params) ==
    LET se == Split(params, <<" ", ":">>, 1)
    IN  IF Len(se) # 2 THEN Split(params, SP, -1)
        ELSE Split(se[1], SP, -1) \o <<se[2]>>

\* a parser that sets the convenience fields when the parameters fit and
\* accepts the line when they do not
_parse_message_lenient(raw_msg) ==
    LET parts == Split(Strip(raw_msg, {"\r", "\n"}), SP, 2) IN
    IF Len(parts) # 3 THEN Raise("ValueError")
    ELSE LET sender    == _parse_sender(parts[1])
             command   == parts[2]
             paramlist == ParamList(parts[3])
             base      == [sender |-> sender.value, command |-> command,
                           params |-> paramlist]
         IN  IF ~sender.ok THEN sender
             ELSE IF command \in {sJOIN, sPART, sQUIT} /\ Len(paramlist) = 1
             THEN Return(base @@ [target |-> paramlist[1]])
             ELSE IF command = sPRIVMSG /\ Len(paramlist) = 2
             THEN Return(base @@ [target |-> paramlist[1],
                                  message |-> paramlist[2]])
             ELSE IF command = sKICK /\ Len(paramlist) = 3
             THEN Return(base @@ [channel |-> paramlist[1],
                                  target |-> paramlist[2],
                                  reason |-> paramlist[3]])
             ELSE Return(base)

_parse_message(raw_msg) ==
    LET Result(sender, command, paramlist) ==
            IF ~sender.ok THEN sender
            ELSE IF command \in {sJOIN, sPART, sQUIT}
            THEN IF Len(paramlist) # 1 THEN Raise("ValueError")
                 ELSE Return([sender |-> sender.value, command |-> command,
                              params |-> paramlist, target |-> paramlist[1]])
            ELSE IF command = sPRIVMSG
            THEN IF Len(paramlist) # 2 THEN Raise("ValueError")
                 ELSE Return([sender |-> sender.value, command |-> command,
                              params |-> paramlist, target |-> paramlist[1],
                              message |-> paramlist[2]])
            ELSE IF command = sKICK
            THEN IF Len(paramlist) # 3 THEN Raise("ValueError")
                 ELSE Return([sender |-> sender.value, command |-> command,
                              params |-> paramlist, channel |-> paramlist[1],
                              target |-> paramlist[2], reason |-> paramlist[3]])
            ELSE Return([sender |-> sender.value, command |-> command,
                         params |-> paramlist])
        Unpack(parts) ==
            IF Len(parts) # 3 THEN Raise("ValueError")
            ELSE Result(_parse_sender(parts[1]), parts[2], ParamList(parts[3]))
    IN  Unpack(Split(Strip(raw_msg, {"\r", "\n"}), SP, 2))

(***************************************************************************)
(* Bounds and inputs of the model.                                         *)
(***************************************************************************)

\* lines the server sends before it falls silent
MaxLines == 3
\* the same, in the short runs
MaxLinesShort == 2
\* calls of event.reply made by one handler body
MaxReplies == 1

BotNick == <<"b">>
ChanC   == <<"#", "c">>
ChanD   == <<"#", "d">>
\* the channel lists an IrcBot is constructed with
ChannelLists == {<<ChanC, ChanD>>}

UserPrefix   == <<":", "n", "!", "u", "@", "h">>
ServerPrefix == <<":", "s">>
CmdA         == <<"!", "a">>

Line(prefix, command, params) == prefix \o SP \o command \o SP \o params \o CRLF

L376     == Line(ServerPrefix, s376, BotNick \o <<" ", ":", "E">>)
LMotd    == Line(ServerPrefix, <<"3", "7", "2">>, BotNick \o <<" ", ":", "-">>)
LPing    == sPING \o <<" ", ":">> \o sPING \o CRLF
LNotice  == <<"N", "O", "T", "I", "C", "E", " ", "A", " ", ":", "x">> \o CRLF
LJoin    == Line(UserPrefix, sJOIN, ChanC)
LChanCmd == Line(UserPrefix, sPRIVMSG, ChanC \o <<" ", ":">> \o CmdA \o <<" ", "x">>)
LPrivCmd == Line(UserPrefix, sPRIVMSG, BotNick \o <<" ", ":">> \o CmdA \o <<" ", "x">>)
LSrvCmd  == Line(ServerPrefix, sPRIVMSG, BotNick \o <<" ", ":">> \o CmdA \o <<" ", "x">>)

\* the lines the server may send
ServerLines == {L376, LMotd, LPing, LNotice, LJoin, LChanCmd, LPrivCmd, LSrvCmd}

\* ordinary chat, and a message with no word in it
LChat  == Line(UserPrefix, sPRIVMSG, ChanC \o <<" ", ":", "h", "i", " ", "x">>)
LEmpty == Line(UserPrefix, sPRIVMSG, ChanC \o <<" ", ":">>)

\* the lines of a conversation on a channel
ChatLines == {L376, LChat, LEmpty}

\* the parts a chat line is made of
Nicks   == {<<"n">>, <<"n", "k">>}
Users   == {<<"u">>}
Hosts   == {<<"h", ".", "x">>}
Targets == {ChanC, BotNick}
Bodies  == {<<"h", "i">>, <<"a", " ", "b">>, <<"a", " ", " ", "b", " ">>, <<":", "a", " ", ":", "b">>, <<>>}

UserSender(nick, user, host) == <<":">> \o nick \o <<"!">> \o user \o <<"@">> \o host

\* ":<nick>!<user>@<host> PRIVMSG <target> :<body>"
PrivmsgLine(nick, user, host, target, body) ==
    Line(UserSender(nick, user, host), sPRIVMSG, target \o <<" ", ":">> \o body)

PrivmsgLines ==
    {PrivmsgLine(c[1], c[2], c[3], c[4], c[5]) :
        c \in Nicks \X Users \X Hosts \X Targets \X Bodies}

\* lines of every command of the parser's table and of two others, with one
\* to four parameters and with none, from a user and from a sender that has
\* no "@"
Prefixes == {UserPrefix, <<":", "n", "!", "u">>}
Verbs    == {sJOIN, sPART, sQUIT, sPRIVMSG, sKICK, <<"3", "7", "2">>, <<"M", "O", "D", "E">>}
ParamStrings ==
    {<<"#", "c">>, <<"#", "c", " ", "x">>, <<"#", "c", " ", ":", "x", " ", "y">>, <<"#", "c", " ", "x", " ", ":", "r", " ", "s">>, <<"#", "c", " ", "x", " ", "y", " ", "z">>, <<":", "t">>}

ArityLines ==
    {Line(c[1], c[2], c[3]) : c \in Prefixes \X Verbs \X ParamStrings}
    \cup {c[1] \o SP \o c[2] \o CRLF : c \in Prefixes \X Verbs}

\* the lines the parser is tried on
ParserLines == {L376} \cup PrivmsgLines \cup ArityLines


\* a command function: its name and the parameters it declares after the
\* event parameter (what inspect.signature reports)
Param(name, hasDefault) == [name |-> name, hasDefault |-> hasDefault]
Func(name, params) == [name |-> name, params |-> params]

\* the registrations an application makes when it is imported, in order
OnEvent(cmd, func)    == [kind |-> "handler", name |-> cmd, func |-> func]
OnCommand(name, func) == [kind |-> "command", name |-> name, func |-> func]

\* two handlers for JOIN and a command taking one or two arguments
AppTwoJoin ==
    <<OnEvent(sJOIN, "h1"),
      OnCommand(CmdA, Func("c2", <<Param(<<"x">>, FALSE), Param(<<"y">>, TRUE)>>)),
      OnEvent(sJOIN, "h2")>>

\* a command taking no argument
AppNoArg == <<OnCommand(CmdA, Func("c0", <<>>))>>

Apps == {AppTwoJoin, AppNoArg}

\* a second handler for PRIVMSG next to the dispatcher, and a command
AppChat ==
    <<OnEvent(sPRIVMSG, "h1"),
      OnCommand(CmdA, Func("c2", <<Param(<<"x">>, FALSE), Param(<<"y">>, TRUE)>>))>>

\* parameters a command function can declare after the event parameter
MaxParams == 2
ParamNames == {<<"x">>, <<"y">>, <<"t", "a", "r", "g", "e", "t">>}
Params == {Param(n, d) : n \in ParamNames, d \in BOOLEAN}

\* the parameter lists of up to MaxParams parameters with different names
Signatures ==
    UNION {{sig \in [1..n -> Params] :
               \A i, j \in 1..n : i # j => sig[i].name # sig[j].name} : n \in 0..MaxParams}

\* an application with one command, for every signature
SignatureApps ==
    {<<OnEvent(sPRIVMSG, "h1"), OnCommand(CmdA, Func("c", sig))>> : sig \in Signatures}

\* an application that registers the same command word twice
AppTwice ==
    <<OnEvent(sPRIVMSG, "h3"),
      OnCommand(CmdA, Func("c0", <<>>)),
      OnCommand(CmdA, Func("c2", <<Param(<<"x">>, FALSE), Param(<<"y">>, TRUE)>>))>>

\* an application with commands registered before and after the help
\* command, in an order that is not the sorted one
CmdZ    == <<"!", "z">>
CmdHelp == <<"!", "h", "e", "l", "p">>
DoHelp  == Func("do_help", <<Param(<<"c", "o", "m", "m", "a", "n", "d">>, TRUE)>>)
OnHelp(name) == [kind |-> "help", name |-> name, func |-> DoHelp]
AppHelp ==
    <<OnCommand(CmdZ, Func("c0", <<>>)),
      OnHelp(CmdHelp),
      OnEvent(sPRIVMSG, "h1"),
      OnCommand(CmdA, Func("c2", <<Param(<<"x">>, FALSE), Param(<<"y">>, TRUE)>>))>>

\* "!help", "!help a" and "!help q" said on a channel, and "!help" sent by
\* the server
LHelp    == Line(UserPrefix, sPRIVMSG, ChanC \o <<" ", ":">> \o CmdHelp)
LHelpA   == Line(UserPrefix, sPRIVMSG, ChanC \o <<" ", ":">> \o CmdHelp \o <<" ", "a">>)
LHelpQ   == Line(UserPrefix, sPRIVMSG, ChanC \o <<" ", ":">> \o CmdHelp \o <<" ", "q">>)
LSrvHelp == Line(ServerPrefix, sPRIVMSG, BotNick \o <<" ", ":">> \o CmdHelp)
HelpLines == {L376, LHelp, LHelpA, LHelpQ, LSrvHelp}

\* the handlers of main.py that keep the log, and a command
AppLog ==
    <<OnEvent(sJOIN, "info_handler"),
      OnEvent(sKICK, "kick_handler"),
      OnEvent(sPRIVMSG, "privmsg_handler"),
      OnCommand(CmdA, Func("c2", <<Param(<<"x">>, FALSE), Param(<<"y">>, TRUE)>>))>>

\* somebody is kicked from the channel
LKick == Line(UserPrefix, sKICK, ChanC \o <<" ", "x", " ", ":", "r">>)

\* what is said and done on a channel that is logged, and a message of a
\* server to the bot
LogLines == {L376, LChanCmd, LJoin, LKick, LSrvCmd}

\* every line of the model
AllLines == ServerLines \cup ChatLines \cup ParserLines \cup HelpLines \cup LogLines

\* _parse_message on each of them, computed once
ParseTable == [line \in AllLines |-> _parse_message(line)]
Parse(line) == ParseTable[line]

\* what a handler body passes to event.reply, and what it raises
ReplyTexts == {<<"o", "k">>}
Exc(kind, msg) == [kind |-> kind, msg |-> msg]
Exceptions ==
    {Exc(<<"V", "a", "l", "u", "e", "E", "r", "r", "o", "r">>,
         <<"b", "a", "d", " ", "i", "n", "p", "u", "t">>)}
NoExc == Exc(<<>>, <<>>)
\* the KeyError of event.sender["nick"]
KeyErrorNick == Exc(<<"K", "e", "y", "E", "r", "r", "o", "r">>,
                    <<"'", "n", "i", "c", "k", "'">>)

(***************************************************************************)
(* The registries.                                                         *)
(***************************************************************************)

LowerCase == <<"a", "b", "c", "d", "e", "f", "g", "h", "i", "j", "k", "l", "m",
               "n", "o", "p", "q", "r", "s", "t", "u", "v", "w", "x", "y", "z">>
UpperCase == <<"A", "B", "C", "D", "E", "F", "G", "H", "I", "J", "K", "L", "M",
               "N", "O", "P", "Q", "R", "S", "T", "U", "V", "W", "X", "Y", "Z">>

\* str.upper()
Upper(s) ==
    [i \in 1..Len(s) |->
        IF \E k \in 1..Len(LowerCase) : LowerCase[k] = s[i]
        THEN UpperCase[CHOOSE k \in 1..Len(LowerCase) : LowerCase[k] = s[i]]
        ELSE s[i]]

\* event_handlers.setdefault(command, []).append(func)
_basic_event_handler(handlers, command, func) ==
    IF command \in DOMAIN handlers
    THEN [handlers EXCEPT ![command] = Append(@, func)]
    ELSE handlers @@ (command :> <<func>>)

\* the words of the usage message, one per declared parameter
UsageWords(params) ==
    [i \in 1..Len(params) |->
        IF params[i].hasDefault THEN <<"[">> \o Upper(params[i].name) \o <<"]">>
        ELSE Upper(params[i].name)]

\* a count that takes every parameter as required
RequiredAll(params) == Len(params)

Required(params) == Cardinality({i \in 1..Len(params) : ~params[i].hasDefault})
Optional(params) == Cardinality({i \in 1..Len(params) : params[i].hasDefault})

\* the tuple command() stores: (func, usage, min_args, max_args)
Descriptor(command_name, func) ==
    [func    |-> func.name,
     usage   |-> Join(SP, <<command_name>> \o UsageWords(func.params)),
     minargs |-> Required(func.params),
     maxargs |-> Required(func.params) + Optional(func.params)]

\* a registry in which the first registration of a name stays
command_once(commands, command_name, func) ==
    IF command_name \in DOMAIN commands THEN commands
    ELSE commands @@ (command_name :> Descriptor(command_name, func))

\* _commands[command_name] = (...)
command(commands, command_name, func) ==
    IF command_name \in DOMAIN commands
    THEN [commands EXCEPT ![command_name] = Descriptor(command_name, func)]
    ELSE commands @@ (command_name :> Descriptor(command_name, func))

(***************************************************************************)
(* Sending.                                                                *)
(***************************************************************************)

\* a _send that appends the terminator without looking
FramedAlways(data) == Join(SP, data) \o CRLF

\* the bytes _send hands to stream.write
Framed(data) ==
    LET joined_data == Join(SP, data)
    IN  IF EndsWith(joined_data, CRLF) THEN joined_data ELSE joined_data \o CRLF

\* the target reply() resolves, or the KeyError of a sender without a nick
ReplyTarget(nick, event) ==
    LET source == event.params[1]
    IN  IF source = nick
        THEN IF "nick" \in DOMAIN event.sender THEN Return(event.sender.nick)
             ELSE Raise("KeyError")
        ELSE Return(source)

\* the bytes reply(event, *data) sends, or the exception it raises
ReplyBytes(nick, event, data) ==
    LET target == ReplyTarget(nick, event)
    IN  IF target.ok
        THEN Return(Framed(<<sPRIVMSG, target.value, <<":">> \o Join(SP, data)>>))
        ELSE target

\* the text _try_except_run replies with: f"{type(e).__name__}: {e}"
ErrorText(e) == e.kind \o <<":", " ">> \o e.msg

\* a different answer: every PING of the line replaced, not only the first
PongForEvery(line) == Join(sPONG, Split(line, sPING, -1))

\* the line the main loop answers a PING with
PongFor(line) == Replace1(line, sPING, sPONG)

(***************************************************************************)
(* The state.                                                              *)
(***************************************************************************)

VARIABLES
    event_handlers, \* bot.event_handlers: command -> handlers, in registration order
    _commands,      \* bot._commands: command word -> descriptor
    app,            \* the registrations the application has still to make
    bot,            \* the IrcBot: nick and channels
    pc,             \* where the main task is
    ji,             \* connect(): the index of the next channel to join
    cur,            \* mainloop(): the line whose event is being dispatched
    cbi,            \* mainloop(): the index of the next callback to spawn
    feed,           \* the server: the lines it may send, and how many are left
    rx,             \* the lines read from the stream so far, with the reader
    eof,            \* the stream has ended
    parsed,         \* the lines the main loop has called _parse_message on
    tasks,          \* the tasks spawned so far, in spawn order
    wire,           \* the chunks written to the socket, in order
    sock,           \* the send buffer of the socket
    mainw,          \* the bytes the main task is still writing
    logs,           \* main.logs: channel -> the deque that holds its log
    deques          \* the deques made by log_msg, by the task that made them

vars == <<event_handlers, _commands, app, bot, pc, ji, cur, cbi, feed, rx, eof,
          parsed, tasks, wire, sock, mainw, logs, deques>>

\* the size of a send buffer that can fill up
SndBuf == 12

NoWrite == [via |-> "", data |-> <<>>]

Task(kind, func, line, hidx, args) ==
    [kind |-> kind, func |-> func, line |-> line, hidx |-> hidx, args |-> args,
     pc |-> "ready", calls |-> 0, exc |-> NoExc, err |-> "", wbuf |-> NoWrite]

EventOf(t) == Parse(rx[tasks[t].line].data).value

\* event_handlers.get(command, ())
HandlersFor(cmd) ==
    IF cmd \in DOMAIN event_handlers THEN event_handlers[cmd] ELSE <<>>

\* other ways to pick the callback: always the first, or from the end
CallbackFirst(handlers, i) == handlers[1]
CallbackReversed(handlers, i) == handlers[Len(handlers) + 1 - i]

\* the callback the main loop spawns at position i of the handler list
Callback(handlers, i) == handlers[i]

Min(a, b) == IF a <= b THEN a ELSE b

\* socket.send: the number of bytes the socket takes without blocking
Accepted(data) == IF sock.limited THEN Min(Len(data), sock.room) ELSE Len(data)

\* stream.write(data) by writer `by`: what reaches the wire now, what is
\* left of the buffer, and the bytes the writer still has to write
Write(by, via, at, data) ==
    LET n == Accepted(data) IN
    [wire |-> IF n = 0 THEN wire
              ELSE Append(wire, [by |-> by, via |-> via, at |-> at,
                                 data |-> SubSeq(data, 1, n), more |-> n < Len(data)]),
     sock |-> IF sock.limited THEN [sock EXCEPT !.room = @ - n] ELSE sock,
     rest |-> IF n = Len(data) THEN NoWrite
              ELSE [via |-> via, data |-> SubSeq(data, n + 1, Len(data))]]

\* a main task that also waits until every spawned task has ended
MainJoinsTasks ==
    /\ mainw = NoWrite
    /\ \A t \in 1..Len(tasks) : tasks[t].pc \in {"done", "failed"}

\* a main task that goes no further once a task it spawned has failed
MainStopsOnFailure ==
    /\ mainw = NoWrite
    /\ \A t \in 1..Len(tasks) : tasks[t].pc # "failed"

MainIdle == mainw = NoWrite
TaskIdle(t) == tasks[t].wbuf = NoWrite

\* the state once bot.py is imported, before the application registers
InitWith(sndbuf, server, apps) ==
    /\ event_handlers = _basic_event_handler(<<>>, sPRIVMSG, "_command_dispatcher")
    /\ _commands = <<>>
    /\ app \in apps
    /\ bot \in {[nick |-> BotNick, channels |-> cl] : cl \in ChannelLists}
    /\ pc = "import"
    /\ ji = 0
    /\ cur = 0
    /\ cbi = 0
    /\ feed = server
    /\ rx = <<>>
    /\ eof = FALSE
    /\ parsed = {}
    /\ tasks = <<>>
    /\ wire = <<>>
    /\ sock = sndbuf
    /\ mainw = NoWrite
    /\ logs = <<>>
    /\ deques = <<>>

\* a send buffer that takes every message whole
Init == InitWith([limited |-> FALSE, room |-> 0],
                 [lines |-> ServerLines, left |-> MaxLines], Apps)

\* the same with a server that sends fewer lines
InitShort == InitWith([limited |-> FALSE, room |-> 0],
                      [lines |-> ServerLines, left |-> MaxLinesShort], Apps)

\* a conversation on a channel, with the application AppChat
InitChat == InitWith([limited |-> FALSE, room |-> 0],
                     [lines |-> ChatLines, left |-> MaxLines], {AppChat})

\* a server that sends the lines the parser is tried on
InitParse == InitWith([limited |-> FALSE, room |-> 0],
                      [lines |-> ParserLines, left |-> MaxLinesShort], {AppChat})

\* the applications that differ in what they register
InitReg == InitWith([limited |-> FALSE, room |-> 0],
                    [lines |-> {L376, LChanCmd}, left |-> MaxLinesShort],
                    SignatureApps \cup {AppTwice})

\* an application with a help command, and people asking for help
InitHelp == InitWith([limited |-> FALSE, room |-> 0],
                     [lines |-> HelpLines, left |-> MaxLinesShort], {AppHelp})

\* the application that keeps logs, on a channel where two things happen
InitLog == InitWith([limited |-> FALSE, room |-> 0],
                    [lines |-> LogLines, left |-> MaxLines], {AppLog})

\* a send buffer of SndBuf bytes
InitWire == InitWith([limited |-> TRUE, room |-> SndBuf],
                     [lines |-> ServerLines, left |-> MaxLinesShort], Apps)

(***************************************************************************)
(* Registration, at import time.                                           *)
(***************************************************************************)

\* the next decorator of the application is one of join, part, privmsg, ...
RegisterHandler ==
    /\ pc = "import"
    /\ app # <<>>
    /\ Head(app).kind = "handler"
    /\ event_handlers' = _basic_event_handler(event_handlers, Head(app).name, Head(app).func)
    /\ app' = Tail(app)
    /\ UNCHANGED <<_commands, bot, pc, ji, cur, cbi, feed, rx, eof, parsed, tasks, wire,
                   sock, mainw>>
    /\ UNCHANGED <<logs, deques>>

\* the next decorator of the application is command(name)
RegisterCommand ==
    /\ pc = "import"
    /\ app # <<>>
    /\ Head(app).kind = "command"
    /\ _commands' = command(_commands, Head(app).name, Head(app).func)
    /\ app' = Tail(app)
    /\ UNCHANGED <<event_handlers, bot, pc, ji, cur, cbi, feed, rx, eof, parsed, tasks,
                   wire, sock, mainw>>
    /\ UNCHANGED <<logs, deques>>

(***************************************************************************)
(* IrcBot.connect.                                                         *)
(***************************************************************************)

\* the socket is connected and NICK is sent
Connect ==
    /\ pc = "import"
    /\ app = <<>>
    /\ LET w == Write(0, "nick", Len(rx), Framed(<<sNICK, bot.nick>>)) IN
         /\ wire' = w.wire
         /\ sock' = w.sock
         /\ mainw' = w.rest
    /\ pc' = "user"
    /\ UNCHANGED <<event_handlers, _commands, app, bot, ji, cur, cbi, feed, rx, eof,
                   parsed, tasks>>
    /\ UNCHANGED <<logs, deques>>

SendUser ==
    /\ pc = "user"
    /\ MainIdle
    /\ LET w == Write(0, "user", Len(rx),
                      Framed(<<sUSER, bot.nick, <<"0">>, <<"*">>, <<":">> \o bot.nick>>)) IN
         /\ wire' = w.wire
         /\ sock' = w.sock
         /\ mainw' = w.rest
    /\ pc' = "motd"
    /\ UNCHANGED <<event_handlers, _commands, app, bot, ji, cur, cbi, feed, rx, eof,
                   parsed, tasks>>
    /\ UNCHANGED <<logs, deques>>

\* a test that ends the wait at any numeric reply of the MOTD
IsMotdNumeric(event) == event.command \in {s376, <<"3", "7", "2">>}

\* the test that ends the wait for the MOTD
IsEndOfMotd(event) == event.command = s376

\* where connect() goes when the MOTD loop is left
AfterMotd == IF bot.channels = <<>> THEN "mainloop" ELSE "join"

\* one turn of "async for line in self.stream" in connect()
ConnectRecv(line) ==
    /\ pc = "motd"
    /\ MainIdle
    /\ ~eof
    /\ feed.left > 0
    /\ line \in feed.lines
    /\ rx' = Append(rx, [data |-> line, phase |-> "connect"])
    /\ LET event == Parse(line) IN
         IF ~event.ok THEN pc' = "crashed" /\ ji' = ji
         ELSE IF IsEndOfMotd(event.value) THEN pc' = AfterMotd /\ ji' = 1
         ELSE pc' = pc /\ ji' = ji
    /\ UNCHANGED <<event_handlers, _commands, app, bot, cur, cbi, eof, parsed,
                   tasks, wire, sock, mainw>>
    /\ feed' = [feed EXCEPT !.left = @ - 1]
    /\ UNCHANGED <<logs, deques>>

\* the stream ends while connect() waits: the loop is left without a break
ConnectEOF ==
    /\ pc = "motd"
    /\ MainIdle
    /\ ~eof
    /\ eof' = TRUE
    /\ pc' = AfterMotd
    /\ ji' = 1
    /\ UNCHANGED <<event_handlers, _commands, app, bot, cur, cbi, feed, rx, parsed,
                   tasks, wire, sock, mainw>>
    /\ UNCHANGED <<logs, deques>>

JoinChannel ==
    /\ pc = "join"
    /\ MainIdle
    /\ LET w == Write(0, "join", Len(rx), Framed(<<sJOIN, bot.channels[ji]>>)) IN
         /\ wire' = w.wire
         /\ sock' = w.sock
         /\ mainw' = w.rest
    /\ IF ji = Len(bot.channels) THEN pc' = "mainloop" /\ ji' = ji
       ELSE pc' = pc /\ ji' = ji + 1
    /\ UNCHANGED <<event_handlers, _commands, app, bot, cur, cbi, feed, rx, eof, parsed,
                   tasks>>
    /\ UNCHANGED <<logs, deques>>

(***************************************************************************)
(* IrcBot.mainloop.                                                        *)
(***************************************************************************)

\* a mainloop() that catches the failure of _parse_message and goes on to the
\* next line
MainRecvSkip(line) ==
    /\ pc = "mainloop"
    /\ MainIdle
    /\ ~eof
    /\ feed.left > 0
    /\ line \in feed.lines
    /\ rx' = Append(rx, [data |-> line, phase |-> "mainloop"])
    /\ IF StartsWith(line, sPING)
       THEN /\ LET w == Write(0, "pong", Len(rx) + 1, Framed(<<PongFor(line)>>)) IN
                 /\ wire' = w.wire
                 /\ sock' = w.sock
                 /\ mainw' = w.rest
            /\ UNCHANGED <<pc, cur, cbi, parsed, tasks>>
       ELSE /\ parsed' = parsed \cup {Len(rx) + 1}
            /\ LET event == Parse(line) IN
                 IF ~event.ok
                 THEN UNCHANGED <<pc, cur, cbi, tasks>>
                 ELSE LET handlers == HandlersFor(event.value.command) IN
                      IF handlers = <<>>
                      THEN UNCHANGED <<pc, cur, cbi, tasks>>
                      ELSE /\ tasks' = Append(tasks, Task("handler", Callback(handlers, 1),
                                                          Len(rx) + 1, 1, <<>>))
                           /\ IF Len(handlers) = 1
                              THEN UNCHANGED <<pc, cur, cbi>>
                              ELSE pc' = "spawn" /\ cur' = Len(rx) + 1 /\ cbi' = 2
            /\ UNCHANGED <<wire, sock, mainw>>
    /\ feed' = [feed EXCEPT !.left = @ - 1]
    /\ UNCHANGED <<event_handlers, _commands, app, bot, ji, eof>>
    /\ UNCHANGED <<logs, deques>>

\* one turn of "async for line in self.stream" in mainloop(), up to the
\* first point where the main task can be suspended
MainRecv(line) ==
    /\ pc = "mainloop"
    /\ MainIdle
    /\ ~eof
    /\ feed.left > 0
    /\ line \in feed.lines
    /\ rx' = Append(rx, [data |-> line, phase |-> "mainloop"])
    /\ IF StartsWith(line, sPING)
       THEN /\ LET w == Write(0, "pong", Len(rx) + 1, Framed(<<PongFor(line)>>)) IN
                 /\ wire' = w.wire
                 /\ sock' = w.sock
                 /\ mainw' = w.rest
            /\ UNCHANGED <<pc, cur, cbi, parsed, tasks>>
       ELSE /\ parsed' = parsed \cup {Len(rx) + 1}
            /\ LET event == Parse(line) IN
                 IF ~event.ok
                 THEN pc' = "crashed" /\ UNCHANGED <<cur, cbi, tasks>>
                 ELSE LET handlers == HandlersFor(event.value.command) IN
                      IF handlers = <<>>
                      THEN UNCHANGED <<pc, cur, cbi, tasks>>
                      ELSE /\ tasks' = Append(tasks, Task("handler", Callback(handlers, 1),
                                                          Len(rx) + 1, 1, <<>>))
                           /\ IF Len(handlers) = 1
                              THEN UNCHANGED <<pc, cur, cbi>>
                              ELSE pc' = "spawn" /\ cur' = Len(rx) + 1 /\ cbi' = 2
            /\ UNCHANGED <<wire, sock, mainw>>
    /\ feed' = [feed EXCEPT !.left = @ - 1]
    /\ UNCHANGED <<event_handlers, _commands, app, bot, ji, eof>>
    /\ UNCHANGED <<logs, deques>>

\* "await curio.spawn(callback(event))" for the next callback of the event
MainSpawn ==
    /\ pc = "spawn"
    /\ LET handlers == HandlersFor(Parse(rx[cur].data).value.command) IN
         /\ tasks' = Append(tasks, Task("handler", Callback(handlers, cbi), cur, cbi, <<>>))
         /\ IF cbi = Len(handlers)
            THEN pc' = "mainloop" /\ cur' = 0 /\ cbi' = 0
            ELSE pc' = pc /\ cur' = cur /\ cbi' = cbi + 1
    /\ UNCHANGED <<event_handlers, _commands, app, bot, ji, feed, rx, eof, parsed,
                   wire, sock, mainw>>
    /\ UNCHANGED <<logs, deques>>

\* the stream ends: mainloop() returns
MainEOF ==
    /\ pc = "mainloop"
    /\ MainIdle
    /\ eof' = TRUE
    /\ pc' = "closed"
    /\ UNCHANGED <<event_handlers, _commands, app, bot, ji, cur, cbi, feed, rx, parsed,
                   tasks, wire, sock, mainw>>
    /\ UNCHANGED <<logs, deques>>

(***************************************************************************)
(* The spawned tasks.                                                      *)
(***************************************************************************)

\* the tasks the model can hold: at most three for a line
TaskIds == 1..(3 * MaxLines)
Spawned(t) == t <= Len(tasks)

\* task t calls event.reply(*data) and then goes to `next`; when reply raises,
\* the task ends with the exception
ReplyFrom(t, via, data, next, more) ==
    LET r == ReplyBytes(bot.nick, EventOf(t), data) IN
    IF r.ok
    THEN LET w == Write(t, via, Len(rx), r.value) IN
           /\ wire' = w.wire
           /\ sock' = w.sock
           /\ tasks' = [tasks EXCEPT ![t] = [more EXCEPT !.calls = @ + 1, !.pc = next,
                                                         !.wbuf = w.rest]]
    ELSE /\ tasks' = [tasks EXCEPT ![t] = [more EXCEPT !.calls = @ + 1, !.pc = "failed",
                                                       !.err = r.error]]
         /\ UNCHANGED <<wire, sock>>

\* whether the number of arguments fits the descriptor
ArityOk(d, params) == d.minargs <= Len(params) /\ Len(params) <= d.maxargs

\* a dispatcher that answers a word it does not know
_command_dispatcher_strict(t) ==
    /\ Spawned(t)
    /\ tasks[t].kind = "handler"
    /\ tasks[t].func = "_command_dispatcher"
    /\ tasks[t].pc = "ready"
    /\ LET words == SplitWS(EventOf(t).message) IN
         IF words = <<>>
         THEN /\ tasks' = [tasks EXCEPT ![t].pc = "failed", ![t].err = "ValueError"]
              /\ UNCHANGED <<wire, sock>>
         ELSE IF Head(words) \notin DOMAIN _commands
              THEN ReplyFrom(t, "usage", <<sUsage, Head(words)>>, "done", tasks[t])
              ELSE LET d == _commands[Head(words)] IN
                   IF ArityOk(d, Tail(words))
                   THEN /\ tasks' = Append([tasks EXCEPT ![t].pc = "done"],
                                           Task("command", d.func, tasks[t].line,
                                                0, Tail(words)))
                        /\ UNCHANGED <<wire, sock>>
                   ELSE ReplyFrom(t, "usage", <<sUsage, d.usage>>, "done", tasks[t])
    /\ UNCHANGED <<event_handlers, _commands, app, bot, pc, ji, cur, cbi, feed, rx, eof,
                   parsed, mainw>>
    /\ UNCHANGED <<logs, deques>>

\* _command_dispatcher(event), run when its task is first scheduled
_command_dispatcher(t) ==
    /\ Spawned(t)
    /\ tasks[t].kind = "handler"
    /\ tasks[t].func = "_command_dispatcher"
    /\ tasks[t].pc = "ready"
    /\ LET words == SplitWS(EventOf(t).message) IN
         IF words = <<>>
         THEN /\ tasks' = [tasks EXCEPT ![t].pc = "failed", ![t].err = "ValueError"]
              /\ UNCHANGED <<wire, sock>>
         ELSE LET command_name == Head(words)
                  params == Tail(words)
              IN  IF command_name \notin DOMAIN _commands
                  THEN /\ tasks' = [tasks EXCEPT ![t].pc = "done"]
                       /\ UNCHANGED <<wire, sock>>
                  ELSE LET d == _commands[command_name] IN
                       IF ArityOk(d, params)
                       THEN /\ tasks' = Append([tasks EXCEPT ![t].pc = "done"],
                                               Task("command", d.func, tasks[t].line,
                                                    0, params))
                            /\ UNCHANGED <<wire, sock>>
                       ELSE ReplyFrom(t, "usage", <<sUsage, d.usage>>, "done", tasks[t])
    /\ UNCHANGED <<event_handlers, _commands, app, bot, pc, ji, cur, cbi, feed, rx, eof,
                   parsed, mainw>>
    /\ UNCHANGED <<logs, deques>>

\* the functions whose bodies the model follows in actions of their own
LogHandlers == {"info_handler", "kick_handler", "privmsg_handler"}
OwnActions == {"_command_dispatcher", "do_help"} \cup LogHandlers

\* a registered handler, or a command function inside _try_except_run, is
\* first scheduled and runs up to its first suspension
TaskStart(t) ==
    /\ Spawned(t)
    /\ tasks[t].func \notin OwnActions
    /\ tasks[t].pc = "ready"
    /\ tasks' = [tasks EXCEPT ![t].pc = "running"]
    /\ UNCHANGED <<event_handlers, _commands, app, bot, pc, ji, cur, cbi, feed, rx, eof,
                   parsed, wire, sock, mainw>>
    /\ UNCHANGED <<logs, deques>>

\* the body of a handler calls event.reply(text); a KeyError of reply leaves
\* the body, and in a command it reaches _try_except_run, whose own reply
\* raises the same way
BodyReply(t, text) ==
    /\ Spawned(t)
    /\ tasks[t].pc = "running"
    /\ TaskIdle(t)
    /\ tasks[t].calls < MaxReplies
    /\ LET failing == ~ReplyBytes(bot.nick, EventOf(t), <<text>>).ok
           caught  == failing /\ tasks[t].kind = "command"
       IN  ReplyFrom(t, "reply", <<text>>, "running",
                     IF caught THEN [tasks[t] EXCEPT !.calls = @ + 1, !.exc = KeyErrorNick]
                     ELSE tasks[t])
    /\ UNCHANGED <<event_handlers, _commands, app, bot, pc, ji, cur, cbi, feed, rx, eof,
                   parsed, mainw>>
    /\ UNCHANGED <<logs, deques>>

BodyReturn(t) ==
    /\ Spawned(t)
    /\ tasks[t].pc = "running"
    /\ TaskIdle(t)
    /\ tasks' = [tasks EXCEPT ![t].pc = "done"]
    /\ UNCHANGED <<event_handlers, _commands, app, bot, pc, ji, cur, cbi, feed, rx, eof,
                   parsed, wire, sock, mainw>>
    /\ UNCHANGED <<logs, deques>>

\* what _try_except_run does with an exception of the command function
\* (TRUE: it is caught and reported with event.reply)
Catches(e) == TRUE

\* the body of a handler raises e: a generic handler's task ends with it,
\* _try_except_run catches it and replies
BodyRaise(t, e) ==
    /\ Spawned(t)
    /\ tasks[t].pc = "running"
    /\ TaskIdle(t)
    /\ IF tasks[t].kind = "command" /\ Catches(e)
       THEN ReplyFrom(t, "error", <<ErrorText(e)>>, "done", [tasks[t] EXCEPT !.exc = e])
       ELSE /\ tasks' = [tasks EXCEPT ![t].pc = "failed", ![t].exc = e, ![t].err = "raised"]
            /\ UNCHANGED <<wire, sock>>
    /\ UNCHANGED <<event_handlers, _commands, app, bot, pc, ji, cur, cbi, feed, rx, eof,
                   parsed, mainw>>
    /\ UNCHANGED <<logs, deques>>

(***************************************************************************)
(* add_help_command and the help command it registers.                     *)
(***************************************************************************)

\* the printable ASCII characters in code point order, from 32 (the
\* backquote, code point 96, is in no text of the model and is left out)
Ascii ==
    <<" ", "!", "\"", "#", "$", "%", "&", "'", "(", ")", "*", "+", ",", "-",
      ".", "/", "0", "1", "2", "3", "4", "5", "6", "7", "8", "9", ":", ";",
      "<", "=", ">", "?", "@", "A", "B", "C", "D", "E", "F", "G", "H", "I",
      "J", "K", "L", "M", "N", "O", "P", "Q", "R", "S", "T", "U", "V", "W",
      "X", "Y", "Z", "[", "\\", "]", "^", "_", "a", "b", "c", "d", "e",
      "f", "g", "h", "i", "j", "k", "l", "m", "n", "o", "p", "q", "r", "s",
      "t", "u", "v", "w", "x", "y", "z", "{", "|", "}", "~">>
Ord(c) ==
    LET k == CHOOSE i \in 1..Len(Ascii) : Ascii[i] = c
    IN  IF k <= 64 THEN 31 + k ELSE 32 + k

\* the order of str: by code point, a proper prefix first
StrLess(a, b) ==
    \E k \in 1..(Len(a) + 1) :
        /\ k <= Len(b)
        /\ \A j \in 1..(k - 1) : a[j] = b[j]
        /\ k = Len(a) + 1 \/ Ord(a[k]) < Ord(b[k])

\* a listing from the largest name to the smallest
RECURSIVE SortedBackwards(_)
SortedBackwards(S) ==
    IF S = {} THEN <<>>
    ELSE LET m == CHOOSE x \in S : \A y \in S \ {x} : StrLess(y, x)
         IN  <<m>> \o SortedBackwards(S \ {m})

\* sorted(_commands): the keys in ascending order
RECURSIVE Sorted(_)
Sorted(S) ==
    IF S = {} THEN <<>>
    ELSE LET m == CHOOSE x \in S : \A y \in S \ {x} : StrLess(x, y)
         IN  <<m>> \o Sorted(S \ {m})

\* string.punctuation, without the backquote
Punctuation ==
    {"!", "\"", "#", "$", "%", "&", "'", "(", ")", "*", "+", ",", "-", ".",
      "/", ":", ";", "<", "=", ">", "?", "@", "[", "\\", "]", "^", "_",
      "{", "|", "}", "~"}

\* the texts of do_help
HelpSee ==
    <<"S", "e", "e", " ", "'">>
HelpList ==
    <<" ", "C", "O", "M", "M", "A", "N", "D", "'", " ", "f", "o", "r", " ",
      "h", "e", "l", "p", " ", "o", "n", " ", "a", " ", "s", "p", "e", "c",
      "i", "f", "i", "c", " ", "c", "o", "m", "m", "a", "n", "d", ".", " ",
      "L", "i", "s", "t", " ", "o", "f", " ", "c", "o", "m", "m", "a", "n",
      "d", "s", ":", " ">>
NoCommandCalled ==
    <<"N", "o", " ", "c", "o", "m", "m", "a", "n", "d", " ", "c", "a", "l",
      "l", "e", "d", " ">>
SadFace == <<" ", ":", "(">>
NoDescription ==
    <<"N", "o", " ", "d", "e", "s", "c", "r", "i", "p", "t", "i", "o", "n",
      " ", "p", "r", "o", "v", "i", "d", "e", "d", ".">>
DoHelpDoc ==
    <<"D", "i", "s", "p", "l", "a", "y", " ", "a", " ", "l", "i", "s", "t",
      " ", "o", "f", " ", "c", "o", "m", "m", "a", "n", "d", "s", " ", "o",
      "r", " ", "h", "e", "l", "p", " ", "o", "n", " ", "a", " ", "s", "p",
      "e", "c", "i", "f", "i", "c", " ", "c", "o", "m", "m", "a", "n", "d",
      ".">>

\* ' '.join(func.__doc__.split()), or the default; of the functions of the
\* model only do_help has a docstring
Doc(func) == IF func = "do_help" THEN DoHelpDoc ELSE NoDescription

\* the first name of the registry that matches the word when punctuation
\* around both is ignored (the registries of the model hold one at most)
Lookalikes(word) ==
    {name \in DOMAIN _commands : Strip(name, Punctuation) = Strip(word, Punctuation)}

\* what do_help replies, given the name it was added under and its arguments
HelpText(command_name, args) ==
    IF args = <<>>
    THEN HelpSee \o command_name \o HelpList \o Join(<<",", " ">>, Sorted(DOMAIN _commands))
    ELSE LET word == Strip(args[1], Whitespace) IN
         IF word \in DOMAIN _commands
         THEN _commands[word].usage \o <<":", " ">> \o Doc(_commands[word].func)
         ELSE IF Lookalikes(word) # {}
         THEN LET name == CHOOSE n \in Lookalikes(word) : TRUE IN
              _commands[name].usage \o <<":", " ">> \o Doc(_commands[name].func)
         ELSE NoCommandCalled \o word \o SadFace

\* the next call of the application is add_help_command(name)
add_help_command ==
    /\ pc = "import"
    /\ app # <<>>
    /\ Head(app).kind = "help"
    /\ _commands' = command(_commands, Head(app).name, Head(app).func)
    /\ app' = Tail(app)
    /\ UNCHANGED <<event_handlers, bot, pc, ji, cur, cbi, feed, rx, eof, parsed, tasks,
                   wire, sock, mainw>>
    /\ UNCHANGED <<logs, deques>>

\* do_help(event, command=None) inside _try_except_run, run when its task is
\* first scheduled; the name it was added under is the word that called it
do_help(t) ==
    /\ Spawned(t)
    /\ tasks[t].kind = "command"
    /\ tasks[t].func = "do_help"
    /\ tasks[t].pc = "ready"
    /\ LET command_name == Head(SplitWS(EventOf(t).message))
           text    == HelpText(command_name, tasks[t].args)
           failing == ~ReplyBytes(bot.nick, EventOf(t), <<text>>).ok
       IN  ReplyFrom(t, "help", <<text>>, "done",
                     IF failing THEN [tasks[t] EXCEPT !.calls = @ + 1, !.exc = KeyErrorNick]
                     ELSE tasks[t])
    /\ UNCHANGED <<event_handlers, _commands, app, bot, pc, ji, cur, cbi, feed, rx, eof,
                   parsed, mainw>>
    /\ UNCHANGED <<logs, deques>>

(***************************************************************************)
(* The socket.                                                             *)
(***************************************************************************)

\* stream.write resumes for the main task once the socket is writable
MainWriteMore ==
    /\ ~MainIdle
    /\ sock.room > 0
    /\ LET w == Write(0, mainw.via, Len(rx), mainw.data) IN
         /\ wire' = w.wire
         /\ sock' = w.sock
         /\ mainw' = w.rest
    /\ UNCHANGED <<event_handlers, _commands, app, bot, pc, ji, cur, cbi, feed, rx, eof,
                   parsed, tasks>>
    /\ UNCHANGED <<logs, deques>>

\* stream.write resumes for task t once the socket is writable
TaskWriteMore(t) ==
    /\ Spawned(t)
    /\ ~TaskIdle(t)
    /\ sock.room > 0
    /\ LET w == Write(t, tasks[t].wbuf.via, Len(rx), tasks[t].wbuf.data) IN
         /\ wire' = w.wire
         /\ sock' = w.sock
         /\ tasks' = [tasks EXCEPT ![t].wbuf = w.rest]
    /\ UNCHANGED <<event_handlers, _commands, app, bot, pc, ji, cur, cbi, feed, rx, eof,
                   parsed, mainw>>
    /\ UNCHANGED <<logs, deques>>

\* the network takes the bytes of a full send buffer
Drain ==
    /\ sock.limited
    /\ sock.room = 0
    /\ sock' = [sock EXCEPT !.room = SndBuf]
    /\ UNCHANGED <<event_handlers, _commands, app, bot, pc, ji, cur, cbi, feed, rx, eof,
                   parsed, tasks, wire, mainw>>
    /\ UNCHANGED <<logs, deques>>

(***************************************************************************)
(* main.py: log_msg and the handlers that call it.                         *)
(***************************************************************************)

LOG_LEN == 1000

\* str.lower()
Lower(s) ==
    [i \in 1..Len(s) |->
        IF \E k \in 1..Len(UpperCase) : UpperCase[k] = s[i]
        THEN LowerCase[CHOOSE k \in 1..Len(UpperCase) : UpperCase[k] = s[i]]
        ELSE s[i]]

\* time.strftime('%d %b %H:%M:%S') when the message is logged
TimeStamp == <<"0", "1", " ", "J", "a", "n", " ", "0", "0", ":", "0", "0", ":", "0", "0">>

_format_msg(msg) == <<"[">> \o TimeStamp \o <<"]", " ">> \o msg \o <<"\n">>

\* the directory irclogs when the program starts: channel -> lines of its file
irclogs == <<>>

\* deque(maxlen=LOG_LEN).append(x)
DequeAppend(log, x) ==
    IF Len(log) = LOG_LEN THEN Append(Tail(log), x) ELSE Append(log, x)

\* an entry of a deque: the line, and the task that appended it (0: read
\* from the file)
Entry(text, by) == [text |-> text, by |-> by]

\* the call of log_msg a handler makes for an event, or the KeyError of
\* event.sender['nick'] for a sender that is a server
LogCall(func, event) ==
    IF "nick" \notin DOMAIN event.sender THEN Raise("KeyError")
    ELSE IF func = "info_handler"
    THEN Return([channel |-> event.target,
                 msg |-> <<"*", " ">> \o event.sender.nick \o SP
                         \o Lower(event.command) \o <<"s">>])
    ELSE IF func = "kick_handler"
    THEN Return([channel |-> event.channel,
                 msg |-> event.sender.nick \o SP \o Lower(event.command) \o <<"s", " ">>
                         \o event.target
                         \o <<" ", "(", "r", "e", "a", "s", "o", "n", ":", " ">>
                         \o event.reason \o <<")">>])
    ELSE Return([channel |-> event.target,
                 msg |-> <<"<">> \o event.sender.nick \o <<">", " ">> \o event.message])

\* a handler of main.py is first scheduled: it formats the message and calls
\* log_msg, which appends to the deque of the channel when logs has one, and
\* otherwise makes a deque and is suspended in curio.aopen
log_msg(t) ==
    /\ Spawned(t)
    /\ tasks[t].func \in LogHandlers
    /\ tasks[t].pc = "ready"
    /\ LET call == LogCall(tasks[t].func, EventOf(t)) IN
         IF ~call.ok
         THEN /\ tasks' = [tasks EXCEPT ![t].pc = "failed", ![t].exc = KeyErrorNick,
                                        ![t].err = "raised"]
              /\ UNCHANGED <<logs, deques>>
         ELSE IF call.value.channel \in DOMAIN logs
         THEN /\ deques' = [deques EXCEPT ![logs[call.value.channel]] =
                               DequeAppend(@, Entry(_format_msg(call.value.msg), t))]
              /\ tasks' = [tasks EXCEPT ![t].pc = "done"]
              /\ UNCHANGED logs
         ELSE /\ deques' = (t :> <<>>) @@ deques
              /\ tasks' = [tasks EXCEPT ![t].pc = "aopen"]
              /\ UNCHANGED logs
    /\ UNCHANGED <<event_handlers, _commands, app, bot, pc, ji, cur, cbi, feed, rx, eof,
                   parsed, wire, sock, mainw>>

\* curio.aopen has answered: the lines of the file, when there is one, go
\* into the deque the task made, the deque becomes the log of the channel,
\* and the message is appended to it
log_msg_aopen(t) ==
    /\ Spawned(t)
    /\ tasks[t].pc = "aopen"
    /\ LET call == LogCall(tasks[t].func, EventOf(t)).value
           read == IF call.channel \in DOMAIN irclogs
                   THEN [k \in 1..Len(irclogs[call.channel]) |->
                            Entry(irclogs[call.channel][k], 0)]
                   ELSE <<>>
       IN  /\ logs' = (call.channel :> t) @@ logs
           /\ deques' = [deques EXCEPT ![t] =
                            DequeAppend(@ \o read, Entry(_format_msg(call.msg), t))]
    /\ tasks' = [tasks EXCEPT ![t].pc = "done"]
    /\ UNCHANGED <<event_handlers, _commands, app, bot, pc, ji, cur, cbi, feed, rx, eof,
                   parsed, wire, sock, mainw>>

(***************************************************************************)
(* The specifications.                                                     *)
(***************************************************************************)

Register ==
    \/ RegisterHandler
    \/ RegisterCommand

MainStep ==
    \/ Connect
    \/ SendUser
    \/ \E line \in AllLines : ConnectRecv(line)
    \/ ConnectEOF
    \/ JoinChannel
    \/ \E line \in AllLines : MainRecv(line)
    \/ MainSpawn
    \/ MainEOF

TaskStep(t) ==
    \/ _command_dispatcher(t)
    \/ TaskStart(t)
    \/ \E text \in ReplyTexts : BodyReply(t, text)
    \/ BodyReturn(t)
    \/ \E e \in Exceptions : BodyRaise(t, e)

Next ==
    \/ Register
    \/ MainStep
    \/ \E t \in TaskIds : TaskStep(t)

SocketStep ==
    \/ MainWriteMore
    \/ \E t \in TaskIds : TaskWriteMore(t)
    \/ Drain

NextWire == Next \/ SocketStep

HelpStep ==
    \/ add_help_command
    \/ \E t \in TaskIds : do_help(t)

NextHelp == Next \/ HelpStep

LogStep ==
    \/ \E t \in TaskIds : log_msg(t)
    \/ \E t \in TaskIds : log_msg_aopen(t)

NextLog == Next \/ LogStep

\* the program with a send buffer that never fills
Spec == Init /\ [][Next]_vars

\* the same program in the short runs
SpecShort == InitShort /\ [][Next]_vars

\* the short runs under the scheduling of curio's kernel: a task that is
\* ready to run is run, and the main task is resumed after each spawn
SpecFair ==
    /\ InitShort
    /\ [][Next]_vars
    /\ WF_vars(MainSpawn)
    /\ \A t \in TaskIds : WF_vars(TaskStart(t))

\* the program in a conversation on a channel
SpecChat == InitChat /\ [][Next]_vars

\* the program reading the lines the parser is tried on
SpecParse == InitParse /\ [][Next]_vars

\* the program under the applications that differ in what they register
SpecReg == InitReg /\ [][Next]_vars

\* the program with a help command
SpecHelp == InitHelp /\ [][NextHelp]_vars

\* the program with the handlers that keep the logs
SpecLog == InitLog /\ [][NextLog]_vars

\* the program with a send buffer that fills and is drained by the network
SpecWire == InitWire /\ [][NextWire]_vars

(***************************************************************************)
(* What the properties below speak about.                                  *)
(***************************************************************************)

Live(t)     == Spawned(t) /\ tasks[t].pc \in {"ready", "running"}
Finished(t) == Spawned(t) /\ tasks[t].pc \in {"done", "failed"} /\ TaskIdle(t)

\* the wire positions task t (0: the main task) wrote at
WrittenBy(t) == {k \in 1..Len(wire) : wire[k].by = t}

\* the target a reply to this event is meant to have
ClaimedTarget(event) ==
    IF event.params[1] = bot.nick /\ "nick" \in DOMAIN event.sender
    THEN event.sender.nick
    ELSE event.params[1]

\* the message "PRIVMSG <target> :<text>" as it is framed on the wire
Privmsg(target, text) == sPRIVMSG \o SP \o target \o <<" ", ":">> \o text \o CRLF

\* line i was read by the main loop
MainLine(i) == i \in 1..Len(rx) /\ rx[i].phase = "mainloop"

\* a line with command 376 has been read
Seen376 == \E i \in 1..Len(rx) : Parse(rx[i].data).ok
                                  /\ Parse(rx[i].data).value.command = s376

\* connect() has returned
Connected == \/ pc \in {"mainloop", "spawn", "closed"}
             \/ \E i \in 1..Len(rx) : MainLine(i)

\* the tasks started for handler k of the event of line i
HandlerTasks(i, k) ==
    {t \in TaskIds : Spawned(t) /\ tasks[t].kind = "handler"
                     /\ tasks[t].line = i /\ tasks[t].hidx = k}

\* the command tasks started for the event of line i
CommandTasks(i) ==
    {t \in TaskIds : Spawned(t) /\ tasks[t].kind = "command" /\ tasks[t].line = i}

(***************************************************************************)
(* C1: for a PRIVMSG whose first token is a registered command word,       *)
(* once the dispatcher has run: with a number of arguments within          *)
(* [minArgs, maxArgs] the handler is invoked exactly once with those       *)
(* tokens and no usage reply is sent; otherwise exactly one reply with     *)
(* the usage string is sent and the handler is not invoked.                *)
(***************************************************************************)
DispatchOutcome(t) ==
    LET words == SplitWS(EventOf(t).message) IN
    (words # <<>> /\ Head(words) \in DOMAIN _commands) =>
        LET d       == _commands[Head(words)]
            n       == Len(Tail(words))
            invoked == CommandTasks(tasks[t].line)
            usage   == {k \in WrittenBy(t) : Contains(wire[k].data, d.usage)}
        IN  IF d.minargs <= n /\ n <= d.maxargs
            THEN /\ Cardinality(invoked) = 1
                 /\ \A u \in invoked : tasks[u].func = d.func /\ tasks[u].args = Tail(words)
                 /\ usage = {}
            ELSE /\ Cardinality(usage) = 1
                 /\ invoked = {}

C1_DispatchOrUsage ==
    \A t \in TaskIds :
        (Finished(t) /\ tasks[t].func = "_command_dispatcher") => DispatchOutcome(t)

(***************************************************************************)
(* C2: when a command handler raises an exception of kind K with message   *)
(* M, exactly one reply "K: M" goes to the originating target, the         *)
(* exception stays in the task, and the main loop and the connection are   *)
(* left as they were.                                                      *)
(***************************************************************************)
Raises(t) ==
    /\ Spawned(t)
    /\ tasks[t].kind = "command"
    /\ tasks[t].exc = NoExc
    /\ tasks'[t].exc # NoExc

C2_RaiseIsReported ==
    [][\A t \in TaskIds :
         Raises(t) =>
            /\ wire' = Append(wire, wire'[Len(wire')])
            /\ wire'[Len(wire')].by = t
            /\ wire'[Len(wire')].data = Privmsg(ClaimedTarget(EventOf(t)),
                                                ErrorText(tasks'[t].exc))
            /\ tasks'[t].pc = "done"
            /\ UNCHANGED <<pc, eof, feed, rx, mainw>>]_vars

C4_ReplyAlwaysSends ==
    \A t \in TaskIds :
        Spawned(t) =>
            /\ Cardinality(WrittenBy(t)) = tasks[t].calls
            /\ \A k \in WrittenBy(t) :
                 StartsWith(wire[k].data,
                            sPRIVMSG \o SP \o ClaimedTarget(EventOf(t)) \o <<" ", ":">>)

(***************************************************************************)
(* C5: with two generic handlers registered for JOIN, a well-formed JOIN   *)
(* line read by the main loop leads, under fair scheduling, to both        *)
(* handlers being run for that line, and no handler is ever started more   *)
(* than once for a line.                                                   *)
(***************************************************************************)
JoinRead(i) ==
    /\ MainLine(i)
    /\ Parse(rx[i].data).ok
    /\ Parse(rx[i].data).value.command = sJOIN
    /\ Len(HandlersFor(sJOIN)) = 2

\* handler k of the registry has been run for line i
Ran(i, k) ==
    /\ JoinRead(i)
    /\ \E t \in HandlerTasks(i, k) :
         /\ tasks[t].func = HandlersFor(sJOIN)[k]
         /\ tasks[t].pc # "ready"

StartedAtMostOnce ==
    \A i \in 1..Len(rx) : \A f \in {"h1", "h2"} :
        Cardinality({t \in TaskIds : Spawned(t) /\ tasks[t].kind = "handler"
                                     /\ tasks[t].line = i /\ tasks[t].func = f}) <= 1

C5_BothHandlersRun ==
    /\ \A i \in 1..(MaxLines + 1) : JoinRead(i) ~> (Ran(i, 1) /\ Ran(i, 2))
    /\ []StartedAtMostOnce

C5_Witness ==
    \E i \in 1..Len(rx) : Ran(i, 1) /\ Ran(i, 2)

(***************************************************************************)
(* C6: the tasks of the registered handlers are started in the order the   *)
(* lines arrived, and for one line in the order the handlers were          *)
(* registered.                                                             *)
(***************************************************************************)
IsHandlerTask(t) == Spawned(t) /\ tasks[t].kind = "handler"

C6_StartOrder ==
    /\ \A t \in TaskIds :
         IsHandlerTask(t) =>
            tasks[t].func = HandlersFor(EventOf(t).command)[tasks[t].hidx]
    /\ \A t, u \in TaskIds :
         (IsHandlerTask(t) /\ IsHandlerTask(u) /\ t < u) =>
            \/ tasks[t].line < tasks[u].line
            \/ tasks[t].line = tasks[u].line /\ tasks[t].hidx < tasks[u].hidx

C6_Witness ==
    \E t, u, v \in TaskIds :
        /\ IsHandlerTask(t) /\ IsHandlerTask(u) /\ IsHandlerTask(v)
        /\ tasks[t].line = tasks[u].line /\ tasks[t].hidx = 1 /\ tasks[u].hidx = 2
        /\ tasks[v].line # tasks[t].line

(***************************************************************************)
(* C7: while a handler or a command is still unfinished, the main loop     *)
(* can read the next line (answering it if it is a PING), and can start    *)
(* the next handler of the event it is dispatching.                        *)
(***************************************************************************)
C7_MainNeverWaits ==
    (\E t \in TaskIds : Live(t)) =>
        /\ (pc = "mainloop" /\ mainw = NoWrite /\ ~eof /\ feed.left > 0) =>
              \A line \in feed.lines : ENABLED MainRecv(line)
        /\ (pc = "spawn") => ENABLED MainSpawn

\* a task is still running while a later line has been answered or dispatched
C7_Witness ==
    \E t \in TaskIds :
        /\ Spawned(t) /\ tasks[t].pc = "running"
        /\ \E j \in 1..Len(rx) :
             /\ j > tasks[t].line
             /\ \/ \E u \in TaskIds : Spawned(u) /\ tasks[u].line = j
                \/ \E k \in WrittenBy(0) : wire[k].via = "pong" /\ wire[k].at = j

(***************************************************************************)
(* C8: connect() writes NICK, USER and then one JOIN per channel in        *)
(* configuration order; NICK and USER are written before a line is read;   *)
(* no JOIN is written, no handler is started and the main loop is not      *)
(* entered unless a line with command 376 has been read.                   *)
(***************************************************************************)
ConnectMessages ==
    <<sNICK \o SP \o bot.nick \o CRLF,
      sUSER \o SP \o bot.nick \o <<" ", "0", " ", "*", " ", ":">> \o bot.nick \o CRLF>>
    \o [k \in 1..Len(bot.channels) |-> sJOIN \o SP \o bot.channels[k] \o CRLF]

C8_ConnectSequence ==
    /\ \A k \in 1..Min(Len(wire), Len(ConnectMessages)) :
         wire[k].by = 0 /\ wire[k].data = ConnectMessages[k]
    /\ (rx # <<>>) => Len(wire) >= 2
    /\ Connected => Len(wire) >= Len(ConnectMessages)
    /\ (Len(wire) > 2 \/ tasks # <<>> \/ Connected) => Seen376

(***************************************************************************)
(* C9: while connect() waits for the end of the MOTD, a line whose command *)
(* is not 376 leaves the bot waiting: the handshake goes on, nothing is    *)
(* written and no handler is started.                                      *)
(***************************************************************************)
\* connect() reads a line in this step
MotdLineRead == pc = "motd" /\ Len(rx') = Len(rx) + 1

StaysInMotd == pc' = "motd" /\ UNCHANGED <<wire, sock, mainw, tasks, parsed>>

\* as stated: for a line of any shape
C9_AnyLineIgnored ==
    [][(/\ MotdLineRead
        /\ ~(/\ Parse(rx'[Len(rx')].data).ok
             /\ Parse(rx'[Len(rx')].data).value.command = s376))
       => StaysInMotd]_vars

\* for a line that parses into an Event
C9_ParsedLineIgnored ==
    [][(/\ MotdLineRead
        /\ Parse(rx'[Len(rx')].data).ok
        /\ Parse(rx'[Len(rx')].data).value.command # s376)
       => StaysInMotd]_vars

C9_Witness ==
    /\ pc = "motd"
    /\ \E i \in 1..Len(rx) : /\ rx[i].phase = "connect"
                             /\ Parse(rx[i].data).ok
                             /\ Parse(rx[i].data).value.command # s376

(***************************************************************************)
(* C10: the bytes of each message are contiguous on the wire: a write      *)
(* that left part of its message unsent is followed on the wire by the     *)
(* rest of that message, from the same writer.                             *)
(***************************************************************************)
C10_Contiguous ==
    \A k \in 1..Len(wire) :
        wire[k].more => (k < Len(wire) => wire[k + 1].by = wire[k].by)

(***************************************************************************)
(* C11: for a PRIVMSG whose first word is not a registered command, the    *)
(* dispatcher sends nothing and starts no command, and the event is        *)
(* given to every handler registered for PRIVMSG.                          *)
(***************************************************************************)
\* line i is a PRIVMSG whose first word is no command
PlainChat(i) ==
    /\ MainLine(i)
    /\ Parse(rx[i].data).ok
    /\ Parse(rx[i].data).value.command = sPRIVMSG
    /\ LET words == SplitWS(Parse(rx[i].data).value.message) IN
         words # <<>> /\ Head(words) \notin DOMAIN _commands

\* the main loop is past the spawn loop of line i
Dispatched(i) == i \in parsed /\ ~(pc = "spawn" /\ cur = i)

C11_UnknownWordIsChat ==
    \A i \in 1..Len(rx) :
        PlainChat(i) =>
            /\ CommandTasks(i) = {}
            /\ \A t \in TaskIds :
                 (Spawned(t) /\ tasks[t].line = i
                              /\ tasks[t].func = "_command_dispatcher") =>
                    tasks[t].calls = 0 /\ WrittenBy(t) = {} /\ tasks[t].pc # "failed"
            /\ Dispatched(i) =>
                 \A k \in 1..Len(HandlersFor(sPRIVMSG)) :
                    /\ Cardinality(HandlerTasks(i, k)) = 1
                    /\ \A t \in HandlerTasks(i, k) :
                         tasks[t].func = HandlersFor(sPRIVMSG)[k]

\* the dispatcher has finished with such a line, and the other handler ran
C11_Witness ==
    \E i \in 1..Len(rx) :
        /\ PlainChat(i)
        /\ \E t, u \in TaskIds :
             /\ Finished(t) /\ tasks[t].line = i /\ tasks[t].func = "_command_dispatcher"
             /\ Finished(u) /\ tasks[u].line = i /\ tasks[u].func = "h1"

(***************************************************************************)
(* C12: a line ":<nick>!<user>@<host> PRIVMSG <target> :<body>" parses     *)
(* into a user sender with that nick, user and hostname, the command       *)
(* PRIVMSG, params <<target, body>>, target and message; the body is one   *)
(* element also when it holds spaces.                                      *)
(***************************************************************************)
PrivmsgEvent(nick, user, host, target, body) ==
    [sender  |-> [type |-> "user", nick |-> nick, user |-> user, hostname |-> host],
     command |-> sPRIVMSG,
     params  |-> <<target, body>>,
     target  |-> target,
     message |-> body]

C12_PrivmsgParsed ==
    \A i \in 1..Len(rx) :
        \A c \in Nicks \X Users \X Hosts \X Targets \X Bodies :
            rx[i].data = PrivmsgLine(c[1], c[2], c[3], c[4], c[5]) =>
                Parse(rx[i].data) = Return(PrivmsgEvent(c[1], c[2], c[3], c[4], c[5]))

\* such a line with spaces in its body was read by the main loop
C12_Witness ==
    \E i \in 1..Len(rx) :
        /\ MainLine(i)
        /\ i \in parsed
        /\ rx[i].data \in PrivmsgLines
        /\ Parse(rx[i].data).ok
        /\ Contains(Parse(rx[i].data).value.message, SP)

(***************************************************************************)
(* C13: registering a command stores minArgs = the number of parameters    *)
(* without a default, maxArgs = the number of parameters, and usage = the  *)
(* command name followed by the parameter names in upper case, in          *)
(* declaration order, the optional ones in square brackets.                *)
(***************************************************************************)
\* a command is registered in this step
Registers == pc = "import" /\ app # <<>> /\ Head(app).kind = "command" /\ app' = Tail(app)

RECURSIVE UsageText(_, _)
UsageText(name, params) ==
    IF params = <<>> THEN name
    ELSE LET p == params[Len(params)]
             w == IF p.hasDefault THEN <<"[">> \o Upper(p.name) \o <<"]">>
                  ELSE Upper(p.name)
         IN  UsageText(name, SubSeq(params, 1, Len(params) - 1)) \o SP \o w

C13_DescriptorFromSignature ==
    [][Registers =>
         LET f == Head(app).func
             d == _commands'[Head(app).name]
         IN  /\ d.minargs = Cardinality({k \in 1..Len(f.params) : ~f.params[k].hasDefault})
             /\ d.maxargs = Len(f.params)
             /\ d.usage = UsageText(Head(app).name, f.params)]_vars

\* the descriptor of a function declared as (event, target=None)
C13_Witness ==
    /\ app = <<>>
    /\ CmdA \in DOMAIN _commands
    /\ _commands[CmdA].minargs = 0
    /\ _commands[CmdA].maxargs = 1
    /\ Contains(_commands[CmdA].usage, <<"[", "T", "A", "R", "G", "E", "T", "]">>)

(***************************************************************************)
(* C14: a registration replaces the descriptor of its name and leaves the  *)
(* other names alone, a command is run with the function registered last,  *)
(* and once the application is imported no step changes the command        *)
(* registry or the handler registry.                                       *)
(***************************************************************************)
LastWins ==
    Registers =>
        /\ DOMAIN _commands' = DOMAIN _commands \cup {Head(app).name}
        /\ _commands'[Head(app).name].func = Head(app).func.name
        /\ _commands'[Head(app).name].maxargs = Len(Head(app).func.params)
        /\ \A n \in DOMAIN _commands : n # Head(app).name => _commands'[n] = _commands[n]

RegistriesFrozen == pc # "import" => UNCHANGED <<_commands, event_handlers>>

RunsRegistered ==
    \A t \in TaskIds :
        (Spawned(t) /\ tasks[t].kind = "command") =>
            tasks[t].func = _commands[Head(SplitWS(EventOf(t).message))].func

C14_LastRegistrationWins ==
    /\ [][LastWins /\ RegistriesFrozen]_vars
    /\ []RunsRegistered

\* the word was registered twice and a command has been run for it
C14_Witness ==
    /\ "h3" \in {HandlersFor(sPRIVMSG)[k] : k \in 1..Len(HandlersFor(sPRIVMSG))}
    /\ app = <<>>
    /\ _commands[CmdA].func = "c2"
    /\ \E t \in TaskIds : Spawned(t) /\ tasks[t].kind = "command" /\ tasks[t].pc = "done"

(***************************************************************************)
(* C15: when the help command is called without an argument by an event    *)
(* that can be replied to, its one reply lists, in ascending order and     *)
(* once each, exactly the names that are in the command registry at that   *)
(* moment: the help command's own name and the names registered before     *)
(* and after add_help_command among them.                                  *)
(***************************************************************************)
\* do_help is run without an argument in this step
HelpAsked(t) ==
    /\ Spawned(t)
    /\ tasks[t].func = "do_help"
    /\ tasks[t].args = <<>>
    /\ tasks[t].pc = "ready"
    /\ tasks'[t].pc # "ready"

\* the names a reply lists after "List of commands: "
NamesListed(data) ==
    LET text == Strip(data, {"\r", "\n"})
        i    == Find(text, HelpList)
    IN  Split(SubSeq(text, i + Len(HelpList), Len(text)), <<",", " ">>, -1)

BadLine(i) ==
    /\ i \in 1..Len(rx)
    /\ rx[i].phase = "mainloop"
    /\ ~StartsWith(rx[i].data, sPING)
    /\ ~Parse(rx[i].data).ok

\* C16: when _parse_message fails on a line read in the main loop (a line
\* that is not a PING), nothing catches the failure: the main loop has ended
\* and has no step left to take, no handler task exists for that line, the
\* line is the last one read, and from then on no line is read, no handler
\* is started for an event and the main task writes nothing (no PONG)
C16_ParseFailureFatal ==
    /\ [](\A i \in 1..Len(rx) :
             BadLine(i) =>
                /\ pc = "crashed"
                /\ ~ENABLED MainStep
                /\ i = Len(rx)
                /\ \A t \in 1..Len(tasks) : tasks[t].line # i)
    /\ [][pc = "crashed" =>
             /\ pc' = "crashed"
             /\ rx' = rx
             /\ feed' = feed
             /\ \A t \in 1..Len(tasks') : tasks'[t].kind = "handler" => t <= Len(tasks)
             /\ mainw' = mainw
             /\ \A k \in 1..Len(wire') : wire'[k].by = 0 => k <= Len(wire)]_vars

\* the main loop has failed on a line while the server still had a line to
\* send and the stream was open
C16_Witness ==
    /\ BadLine(Len(rx))
    /\ pc = "crashed"
    /\ feed.left > 0
    /\ ~eof

(***************************************************************************)
(* C17.  The parameter counts _parse_message insists on.                   *)
(***************************************************************************)

\* the fields of a line as _parse_message splits it
Fields(line) == Split(Strip(line, {"\r", "\n"}), SP, 2)

\* the number of parameters of a line, after the " :" rule
ParamCount(line) ==
    IF Len(Fields(line)) < 3 THEN 0 ELSE Len(ParamList(Fields(line)[3]))

\* the commands with convenience fields, and the count each one needs
InTable(verb) == verb \in {sJOIN, sPART, sQUIT, sPRIVMSG, sKICK}
Arity(verb) ==
    IF verb \in {sJOIN, sPART, sQUIT} THEN 1
    ELSE IF verb = sPRIVMSG THEN 2
    ELSE 3

\* line i of the stream was handed to _parse_message
WasParsed(i) == i \in 1..Len(rx) /\ (rx[i].phase = "connect" \/ i \in parsed)

\* _parse_message raised on line i, and the task that called it ended there
ParseFailed(i) ==
    /\ ~Parse(rx[i].data).ok
    /\ pc = "crashed"
    /\ i = Len(rx)

\* _parse_message returned an Event for line i with sender, command and
\* params and nothing else
ParsedBare(i) ==
    /\ Parse(rx[i].data).ok
    /\ DOMAIN Parse(rx[i].data).value = {"sender", "command", "params"}
    /\ Parse(rx[i].data).value.command = Fields(rx[i].data)[2]

\* C17 as stated: a line whose command is JOIN, PART or QUIT with a count
\* other than 1, PRIVMSG with a count other than 2, or KICK with a count
\* other than 3 fails to parse; a line with any other command parses, with
\* any count, and target, message, channel and reason are unset
C17_ArityTableOnly ==
    \A i \in 1..Len(rx) :
        (WasParsed(i) /\ Len(Fields(rx[i].data)) >= 2) =>
            LET verb == Fields(rx[i].data)[2] IN
            IF InTable(verb)
            THEN ParamCount(rx[i].data) # Arity(verb) => ParseFailed(i)
            ELSE ParsedBare(i)

\* C17, amended: the same, where a line with a command outside the table
\* parses when it has a sender, a command and a parameter string and its
\* sender parses; with fewer than three fields, or a sender with "!" and no
\* "@" or without the leading ":", it fails whatever its command is
C17_ArityTable ==
    \A i \in 1..Len(rx) :
        (WasParsed(i) /\ Len(Fields(rx[i].data)) >= 2) =>
            LET verb == Fields(rx[i].data)[2] IN
            IF InTable(verb)
            THEN ParamCount(rx[i].data) # Arity(verb) => ParseFailed(i)
            ELSE IF Len(Fields(rx[i].data)) = 3 /\ _parse_sender(Fields(rx[i].data)[1]).ok
                 THEN ParsedBare(i)
                 ELSE ParseFailed(i)

\* a line with a command outside the table and three parameters was parsed,
\* and after it a KICK with two parameters, on which the parser failed
C17_Witness ==
    /\ Len(rx) = 2
    /\ WasParsed(1) /\ WasParsed(2)
    /\ ~InTable(Fields(rx[1].data)[2])
    /\ ParamCount(rx[1].data) = 3
    /\ ParsedBare(1)
    /\ Fields(rx[2].data)[2] = sKICK
    /\ ParamCount(rx[2].data) = 2
    /\ _parse_sender(Fields(rx[2].data)[1]).ok
    /\ ParseFailed(2)

(***************************************************************************)
(* C18.  The terminator of the messages _send writes.                      *)
(***************************************************************************)

\* the text ends with "\r\n" and what comes before it does not
OneTerminator(d) ==
    /\ EndsWith(d, CRLF)
    /\ ~EndsWith(SubSeq(d, 1, Len(d) - 2), CRLF)

LogsTo(t, ch) ==
    /\ Spawned(t)
    /\ tasks[t].func \in LogHandlers
    /\ LogCall(tasks[t].func, EventOf(t)).ok
    /\ LogCall(tasks[t].func, EventOf(t)).value.channel = ch

\* the in-memory log of channel ch holds the message task t logged
Logged(t, ch) ==
    /\ ch \in DOMAIN logs
    /\ \E k \in 1..Len(deques[logs[ch]]) :
          deques[logs[ch]][k] =
             Entry(_format_msg(LogCall(tasks[t].func, EventOf(t)).value.msg), t)

\* C19: log_msg serialises the access to the buffers it shares: when every
\* call of log_msg for a channel that was begun has completed, the log of
\* the channel holds the message of each of them (fewer than LOG_LEN
\* messages being logged), also when they were the first for the channel
C19_NoLoggedMessageLost ==
    \A ch \in {ChanC, ChanD, BotNick} :
        (\A u \in TaskIds : LogsTo(u, ch) => tasks[u].pc \in {"ready", "done"}) =>
            \A t \in TaskIds : (LogsTo(t, ch) /\ tasks[t].pc = "done") => Logged(t, ch)

(***************************************************************************)
(* C20.  A handler that fails.                                             *)
(***************************************************************************)

\* task t runs a handler of event_handlers and has ended with an exception
FailedHandler(t) == Spawned(t) /\ tasks[t].kind = "handler" /\ tasks[t].pc = "failed"

\* it ends with the exception in this step
Fails(t) ==
    /\ Spawned(t)
    /\ tasks[t].kind = "handler"
    /\ tasks[t].pc # "failed"
    /\ tasks'[t].pc = "failed"

\* C20: the failure of a handler task (the ValueError of _command_dispatcher
\* on a PRIVMSG with no word in it, or an exception raised by a registered
\* handler) stays in that task: the step in which it fails writes nothing
\* and changes neither the main task nor another task; afterwards the task
\* writes nothing, the main loop has not ended and can read each line the
\* server may send, the next handler of the event being dispatched can be
\* spawned, and every task that is ready can run
C20_HandlerFailureConfined ==
    /\ [](\A t \in TaskIds :
             FailedHandler(t) =>
                /\ pc \notin {"crashed", "closed"} \/ eof
                /\ (pc = "mainloop" /\ ~eof /\ feed.left > 0) =>
                      \A line \in feed.lines : ENABLED MainRecv(line)
                /\ (pc = "spawn") => ENABLED MainSpawn
                /\ \A u \in TaskIds :
                      (Spawned(u) /\ tasks[u].pc = "ready") =>
                          ENABLED (TaskStart(u) \/ _command_dispatcher(u))
                /\ \A k \in WrittenBy(t) : wire[k].via = "reply")
    /\ [][\A t \in TaskIds :
             Fails(t) =>
                /\ UNCHANGED <<wire, sock, pc, cur, cbi, rx, eof, feed, parsed, mainw>>
                /\ Len(tasks') = Len(tasks)
                /\ \A u \in 1..Len(tasks) : u # t => tasks'[u] = tasks[u]]_vars
    /\ [][\A t \in TaskIds :
             FailedHandler(t) =>
                /\ tasks'[t] = tasks[t]
                /\ \A k \in (Len(wire) + 1)..Len(wire') : wire'[k].by # t]_vars

\* the dispatcher failed on a PRIVMSG with an empty body, the other handler
\* of that event ran to its end, and a later line was read and has tasks,
\* one of which has replied
C20_Witness ==
    \E i \in 1..Len(rx) :
        /\ rx[i].data = LEmpty
        /\ \E t \in HandlerTasks(i, 1) :
              tasks[t].func = "_command_dispatcher" /\ tasks[t].pc = "failed"
        /\ \E u \in HandlerTasks(i, 2) : tasks[u].pc = "done"
        /\ \E j \in 1..Len(rx) :
              /\ j > i
              /\ HandlerTasks(j, 1) # {}
              /\ \E v \in HandlerTasks(j, 2) : WrittenBy(v) # {}

====
